---- MODULE Spec2Model ----
\* Circuit authoring (QuantumCircuit), circuit -> DAG (QuantumCircuit.dag) and
\* DAG -> circuit (dag_to_circuit) of qiskit-terra, as a state machine.
EXTENDS Integers, Sequences, FiniteSets, TLC

VARIABLES circ, rhs, dag, out, last, definitions

vars == <<circ, rhs, dag, out, last, definitions>>

\* ---------------------------------------------------------------------------
\* Bounds of the model
\* ---------------------------------------------------------------------------
\* most instructions an authored circuit holds (specification Spec)
MaxLen == 3
\* most instructions of each operand of combine / extend (specification SpecPair)
PairLen == 2
\* most instructions of a circuit sent through the round trip (specification SpecRT)
RTLen == 3

\* ---------------------------------------------------------------------------
\* Registers, bit references, instructions, circuits
\* ---------------------------------------------------------------------------
\* A Register object: id is the object's identity, kind its class.
QuantumRegister(id, name, size) ==
    [id |-> id, name |-> name, size |-> size, kind |-> "QuantumRegister"]

ClassicalRegister(id, name, size) ==
    [id |-> id, name |-> name, size |-> size, kind |-> "ClassicalRegister"]

\* a value that is not a Register at all
NotARegister == [id |-> 0, name |-> "", size |-> 0, kind |-> "int"]

IsRegister(r) == r.kind \in {"QuantumRegister", "ClassicalRegister"}

\* name, size and kind of a register object: what has_register compares
RegValue(r) == <<r.name, r.size, r.kind>>

\* The register objects the caller owns.
q       == QuantumRegister(1, "q", 2)
q_twin  == QuantumRegister(2, "q", 2)
q_small == QuantumRegister(3, "q", 1)
c       == ClassicalRegister(4, "c", 2)
c_small == ClassicalRegister(5, "c", 1)
c_as_q  == ClassicalRegister(6, "q", 2)
r       == QuantumRegister(7, "r", 2)

\* An argument of a circuit-building call: a bit reference (register, index)
\* or a whole register.
Bit(reg, idx) == [tag |-> "bit", reg |-> reg, idx |-> idx]
Whole(reg)    == [tag |-> "reg", reg |-> reg, idx |-> -1]
NoArg         == [tag |-> "none", reg |-> NotARegister, idx |-> -1]

\* classical control of an instruction: <<>> is None, else <<register, value>>
NoControl == <<>>

\* An instruction: bit references are <<register, index>> tuples.
Instruction(name, param, qargs, cargs) ==
    [name |-> name, param |-> param, qargs |-> qargs, cargs |-> cargs,
     control |-> NoControl]

Measure(qubit, cbit) == Instruction("measure", <<>>, <<qubit>>, <<cbit>>)

Reset(qubit) == Instruction("reset", <<>>, <<qubit>>, <<>>)

\* A circuit: regs is the OrderedDict's values in insertion order.
Circuit(regs, data) == [regs |-> regs, data |-> data]

\* outcome of a call: the receiver after it, how it ended, what it attached
Outcome(circuit, status, ret) == [circ |-> circuit, status |-> status, ret |-> ret]

RegNames(circuit) == {circuit.regs[k].name : k \in DOMAIN circuit.regs}

RegOf(circuit, name) ==
    circuit.regs[CHOOSE k \in DOMAIN circuit.regs : circuit.regs[k].name = name]

\* ---------------------------------------------------------------------------
\* QuantumCircuit
\* ---------------------------------------------------------------------------
\* has_register comparing name and size, not the kind
has_register_mut(circuit, register) ==
    /\ register.name \in RegNames(circuit)
    /\ RegOf(circuit, register.name).size = register.size

\* lines 58-72
has_register(circuit, register) ==
    /\ register.name \in RegNames(circuit)
    /\ LET registers == RegOf(circuit, register.name) IN
         /\ registers.size = register.size
         /\ \/ register.kind = "QuantumRegister" /\ registers.kind = "QuantumRegister"
            \/ register.kind = "ClassicalRegister" /\ registers.kind = "ClassicalRegister"

\* add(*regs): the loop attaches register k before it looks at register k+1
RECURSIVE add_from(_, _, _)
add_from(circuit, regs, k) ==
    IF k > Len(regs) THEN Outcome(circuit, "ok", {})
    ELSE IF ~IsRegister(regs[k])
         THEN Outcome(circuit, "expected a register", {})
    ELSE IF regs[k].name \notin RegNames(circuit)
         THEN add_from(Circuit(Append(circuit.regs, regs[k]), circuit.data), regs, k + 1)
    ELSE Outcome(circuit, "register name already exists", {})

add(circuit, regs) == add_from(circuit, regs, 1)

\* QuantumCircuit(*regs)
QuantumCircuit(regs) == add(Circuit(<<>>, <<>>), regs)

\* QuantumCircuit(*regs, **keywords), keywords a set of <<key, value>>:
\* __init__(self, *regs) takes no keyword argument, so a call with one raises
\* TypeError before the body of __init__ runs
QuantumCircuitCall(regs, keywords) ==
    IF keywords # {}
    THEN Outcome(Circuit(<<>>, <<>>), "unexpected keyword argument", {})
    ELSE QuantumCircuit(regs)

_attach(circuit, gate) ==
    Outcome(Circuit(circuit.regs, Append(circuit.data, gate)), "ok",
            {Len(circuit.data) + 1})

\* Register.check_range(j)
check_range(register, j) ==
    IF j < 0 \/ j >= register.size THEN "register index out of range" ELSE "ok"

\* register[j]: the bit reference (register, j)
getitem(register, j) == Bit(register, j)

\* x is the argument handed to _check_qreg: a Register object or something else
_check_qreg(circuit, x) ==
    IF ~(x.tag = "reg" /\ x.reg.kind = "QuantumRegister")
    THEN "expected quantum register"
    ELSE IF ~has_register(circuit, x.reg)
    THEN "register not in this circuit"
    ELSE "ok"

_check_creg(circuit, x) ==
    IF ~(x.tag = "reg" /\ x.reg.kind = "ClassicalRegister")
    THEN "expected classical register"
    ELSE IF ~has_register(circuit, x.reg)
    THEN "register not in this circuit"
    ELSE "ok"

\* x[0] of an argument: the register of a bit tuple, register[0] of a register
Item0(x) == IF x.tag = "bit" THEN Whole(x.reg) ELSE getitem(x.reg, 0)

_check_qubit(circuit, qubit) ==
    LET s == _check_qreg(circuit, Item0(qubit)) IN
    IF s # "ok" THEN s ELSE check_range(qubit.reg, qubit.idx)

_check_dups(qubits) ==
    IF Cardinality({qubits[k] : k \in DOMAIN qubits}) # Len(qubits)
    THEN "duplicate qubit arguments" ELSE "ok"

\* measure_bit without the range check of the classical bit
measure_bit_mut(circuit, qubit, cbit) ==
    LET s1 == _check_qubit(circuit, qubit)
        s2 == _check_creg(circuit, Item0(cbit))
    IN  IF s1 # "ok" THEN Outcome(circuit, s1, {})
        ELSE IF s2 # "ok" THEN Outcome(circuit, s2, {})
        ELSE _attach(circuit, Measure(<<qubit.reg, qubit.idx>>, <<cbit.reg, cbit.idx>>))

\* the scalar path of measure (lines 252-255)
measure_bit(circuit, qubit, cbit) ==
    LET s1 == _check_qubit(circuit, qubit)
        s2 == _check_creg(circuit, Item0(cbit))
        s3 == check_range(cbit.reg, cbit.idx)
    IN  IF s1 # "ok" THEN Outcome(circuit, s1, {})
        ELSE IF s2 # "ok" THEN Outcome(circuit, s2, {})
        ELSE IF s3 # "ok" THEN Outcome(circuit, s3, {})
        ELSE _attach(circuit, Measure(<<qubit.reg, qubit.idx>>, <<cbit.reg, cbit.idx>>))

\* measure_loop measuring every qubit into classical bit 0
RECURSIVE measure_loop_mut(_, _, _, _, _)
measure_loop_mut(circuit, qreg, creg, i, ret) ==
    IF i >= qreg.size THEN Outcome(circuit, "ok", ret)
    ELSE LET o == measure_bit(circuit, Bit(qreg, i), Bit(creg, 0)) IN
         IF o.status # "ok" THEN Outcome(o.circ, o.status, ret)
         ELSE measure_loop_mut(o.circ, qreg, creg, i + 1, ret \cup o.ret)

\* the loop of the register form, from index i on; an error ends it
RECURSIVE measure_loop(_, _, _, _, _)
measure_loop(circuit, qreg, creg, i, ret) ==
    IF i >= qreg.size THEN Outcome(circuit, "ok", ret)
    ELSE LET o == measure_bit(circuit, Bit(qreg, i), Bit(creg, i)) IN
         IF o.status # "ok" THEN Outcome(o.circ, o.status, ret)
         ELSE measure_loop(o.circ, qreg, creg, i + 1, ret \cup o.ret)

measure(circuit, qubit, cbit) ==
    IF /\ qubit.tag = "reg" /\ qubit.reg.kind = "QuantumRegister"
       /\ cbit.tag = "reg" /\ cbit.reg.kind = "ClassicalRegister"
       /\ qubit.reg.size = cbit.reg.size
    THEN measure_loop(circuit, qubit.reg, cbit.reg, 0, {})
    ELSE measure_bit(circuit, qubit, cbit)

reset_bit(circuit, qubit) ==
    LET s == _check_qubit(circuit, qubit) IN
    IF s # "ok" THEN Outcome(circuit, s, {})
    ELSE _attach(circuit, Reset(<<qubit.reg, qubit.idx>>))

RECURSIVE reset_loop(_, _, _, _)
reset_loop(circuit, qreg, i, ret) ==
    IF i >= qreg.size THEN Outcome(circuit, "ok", ret)
    ELSE LET o == reset_bit(circuit, Bit(qreg, i)) IN
         IF o.status # "ok" THEN Outcome(o.circ, o.status, ret)
         ELSE reset_loop(o.circ, qreg, i + 1, ret \cup o.ret)

reset(circuit, quantum_register) ==
    IF quantum_register.tag = "reg" /\ quantum_register.reg.kind = "QuantumRegister"
    THEN reset_loop(circuit, quantum_register.reg, 0, {})
    ELSE reset_bit(circuit, quantum_register)

\* ---------------------------------------------------------------------------
\* Gates: cx, classical control, reapply
\* ---------------------------------------------------------------------------
\* CnotGate(ctl, tgt, circ)
CnotGate(ctl, tgt) == Instruction("cx", <<>>, <<ctl, tgt>>, <<>>)

\* the undecorated cx(self, ctl, tgt): attaches, with no check of its own
cx_bit(circuit, ctl, tgt) ==
    _attach(circuit, CnotGate(<<ctl.reg, ctl.idx>>, <<tgt.reg, tgt.idx>>))

\* operand x of a broadcast call at index i
AtIndex(x, i) == IF x.tag = "reg" THEN getitem(x.reg, i) ELSE x

RECURSIVE cx_loop(_, _, _, _, _, _)
cx_loop(circuit, ctl, tgt, i, n, ret) ==
    IF i >= n THEN Outcome(circuit, "ok", ret)
    ELSE LET o == cx_bit(circuit, AtIndex(ctl, i), AtIndex(tgt, i)) IN
         IF o.status # "ok" THEN Outcome(o.circ, o.status, ret)
         ELSE cx_loop(o.circ, ctl, tgt, i + 1, n, ret \cup o.ret)

\* cx as the circuit exposes it: the register-broadcast rule around cx_bit
cx(circuit, ctl, tgt) ==
    IF ctl.tag = "bit" /\ tgt.tag = "bit" THEN cx_bit(circuit, ctl, tgt)
    ELSE LET sizes == {x.reg.size : x \in {y \in {ctl, tgt} : y.tag = "reg"}} IN
         IF Cardinality(sizes) # 1 THEN Outcome(circuit, "register size error", {})
         ELSE cx_loop(circuit, ctl, tgt, 0, CHOOSE n \in sizes : TRUE, {})

\* the instruction at position k of the circuit gets control (classical, val)
SetControl(circuit, k, control) ==
    Circuit(circuit.regs, [circuit.data EXCEPT ![k].control = control])

RECURSIVE SetControls(_, _, _)
SetControls(circuit, ks, control) ==
    IF ks = {} THEN circuit
    ELSE LET k == CHOOSE x \in ks : TRUE IN
         SetControls(SetControl(circuit, k, control), ks \ {k}, control)

\* c_if(classical, val) on the instructions ks of the circuit
c_if(circuit, ks, classical, val) ==
    LET s == _check_creg(circuit, classical) IN
    IF s # "ok" THEN Outcome(circuit, s, {})
    ELSE IF val < 0 THEN Outcome(circuit, "control value should be non-negative", {})
    ELSE Outcome(SetControls(circuit, ks, <<classical.reg, val>>), "ok", ks)

\* _modifiers(gate): the instructions o attached get this instruction's control
_modifiers(inst, o) ==
    IF o.status # "ok" \/ inst.control = NoControl THEN o
    ELSE IF ~has_register(o.circ, inst.control[1])
    THEN Outcome(o.circ, "control register not found", o.ret)
    ELSE Outcome(SetControls(o.circ, o.ret, inst.control), "ok", o.ret)

\* a bit reference rebound onto the target's register of matching name and size
Rebind(circuit, bit) ==
    IF IsRegister(bit[1]) /\ has_register(circuit, bit[1])
    THEN Bit(RegOf(circuit, bit[1].name), bit[2])
    ELSE Bit(bit[1], bit[2])

\* CnotGate.reapply(circ)
reapply_cx(inst, circuit) ==
    _modifiers(inst, cx(circuit, Bit(inst.qargs[1][1], inst.qargs[1][2]),
                                 Bit(inst.qargs[2][1], inst.qargs[2][2])))

reapply_measure(inst, circuit) ==
    _modifiers(inst, measure(circuit, Rebind(circuit, inst.qargs[1]),
                                      Rebind(circuit, inst.cargs[1])))

reapply_reset(inst, circuit) ==
    _modifiers(inst, reset(circuit, Rebind(circuit, inst.qargs[1])))

\* gate.reapply(circuit), dispatched on the gate's class
reapply(inst, circuit) ==
    IF inst.name = "cx" THEN reapply_cx(inst, circuit)
    ELSE IF inst.name = "measure" THEN reapply_measure(inst, circuit)
    ELSE reapply_reset(inst, circuit)

\* for gate in gates[k..]: gate.reapply(circuit); an error ends the loop
RECURSIVE replay(_, _, _)
replay(circuit, gates, k) ==
    IF k > Len(gates) THEN Outcome(circuit, "ok", {})
    ELSE LET o == reapply(gates[k], circuit) IN
         IF o.status # "ok" THEN Outcome(o.circ, o.status, {})
         ELSE replay(o.circ, gates, k + 1)

\* compatible comparing register names only
compatible_mut(self, other) ==
    \A k \in DOMAIN other.regs : other.regs[k].name \in RegNames(self)

\* the compatibility loop of combine and extend
compatible(self, other) ==
    \A k \in DOMAIN other.regs : has_register(self, other.regs[k])

\* combine replaying rhs's instructions before self's
combine_mut(self, other) ==
    IF ~compatible(self, other)
    THEN Outcome(Circuit(<<>>, <<>>), "circuits are not compatible", {})
    ELSE LET fresh == QuantumCircuit(self.regs) IN
         replay(fresh.circ, other.data \o self.data, 1)

\* combine(self, rhs): circ is the new circuit it returns
combine(self, other) ==
    IF ~compatible(self, other)
    THEN Outcome(Circuit(<<>>, <<>>), "circuits are not compatible", {})
    ELSE LET fresh == QuantumCircuit(self.regs) IN
         replay(fresh.circ, self.data \o other.data, 1)

\* extend(self, rhs) with rhs another object than self: circ is self afterwards
extend(self, other) ==
    IF ~compatible(self, other)
    THEN Outcome(self, "circuits are not compatible", {})
    ELSE replay(self, other.data, 1)

\* ---------------------------------------------------------------------------
\* DAGCircuit
\* ---------------------------------------------------------------------------
\* identities of the Register objects a DAG and dag_to_circuit allocate
DagRegId(k) == 100 + k

FreshRegId(k) == 200 + k

\* log is the history of the DAG: the basis elements declared and the operation
\* nodes appended, by name, in the order of the calls
DAGCircuit ==
    [built |-> TRUE, name |-> "", qregs |-> <<>>, cregs |-> <<>>, basis |-> {},
     nodes |-> <<>>, edges |-> {}, log |-> <<>>]

add_qreg(d, name, size) ==
    [d EXCEPT !.qregs =
        Append(@, QuantumRegister(DagRegId(Len(d.qregs) + Len(d.cregs) + 1), name, size))]

add_creg(d, name, size) ==
    [d EXCEPT !.cregs =
        Append(@, ClassicalRegister(DagRegId(Len(d.qregs) + Len(d.cregs) + 1), name, size))]

\* declaring a name again with the same arities changes nothing
add_basis_element(d, name, n_qubits, n_cbits, n_params) ==
    [d EXCEPT !.basis = @ \cup {<<name, n_qubits, n_cbits, n_params>>},
              !.log = Append(@, <<"basis", name>>)]

SeqNames(regs) == {regs[k].name : k \in DOMAIN regs}

SeqReg(regs, name) == regs[CHOOSE k \in DOMAIN regs : regs[k].name = name]

\* a (name, index) operand names a bit of a register among regs
KnownBit(regs, b) ==
    /\ b[1] \in SeqNames(regs)
    /\ b[2] >= 0
    /\ b[2] < SeqReg(regs, b[1]).size

\* the bits, as (name, index), an operation touches: its operands and every bit
\* of the register of its condition
TouchedBits(node) ==
    {<<node.qargs[k][1].name, node.qargs[k][2]>> : k \in DOMAIN node.qargs}
    \cup {<<node.cargs[k][1].name, node.cargs[k][2]>> : k \in DOMAIN node.cargs}
    \cup (IF node.control = NoControl THEN {}
          ELSE {<<node.control[1].name, i>> : i \in 0..(node.control[1].size - 1)})

\* the node that touched bit b last; 0 is the bit's input terminal
LastWriter(d, b) ==
    LET ks == {k \in DOMAIN d.nodes : b \in TouchedBits(d.nodes[k])} IN
    IF ks = {} THEN 0 ELSE CHOOSE k \in ks : \A j \in ks : j <= k

\* apply_operation_back(name, qargs, cargs, params, condition): operands and
\* condition come as (register name, index) and (register name, value)
apply_operation_back(d, name, qargs, cargs, params, condition) ==
    IF \/ \E k \in DOMAIN qargs : ~KnownBit(d.qregs, qargs[k])
       \/ \E k \in DOMAIN cargs : ~KnownBit(d.cregs, cargs[k])
       \/ condition # NoControl /\ condition[1] \notin SeqNames(d.cregs)
    THEN [dag |-> d, status |-> "unknown register or bit"]
    ELSE LET node ==
               [name |-> name, param |-> params,
                qargs |-> [k \in DOMAIN qargs |->
                             <<SeqReg(d.qregs, qargs[k][1]), qargs[k][2]>>],
                cargs |-> [k \in DOMAIN cargs |->
                             <<SeqReg(d.cregs, cargs[k][1]), cargs[k][2]>>],
                control |-> IF condition = NoControl THEN NoControl
                            ELSE <<SeqReg(d.cregs, condition[1]), condition[2]>>]
             n == Len(d.nodes) + 1
         IN  [dag |-> [d EXCEPT !.nodes = Append(@, node),
                                !.edges = @ \cup {<<LastWriter(d, b), n, b>> :
                                                    b \in TouchedBits(node)},
                                !.log = Append(@, <<"node", name>>)],
              status |-> "ok"]

\* does the order (a sequence of node numbers) respect every edge between
\* operation nodes
Respects(d, order) ==
    \A e \in d.edges :
        e[1] = 0 \/
        \A i, j \in DOMAIN order : (order[i] = e[1] /\ order[j] = e[2]) => i < j

\* node_nums_in_topological_order may return any of these
TopologicalOrders(d) ==
    LET n == Len(d.nodes) IN
    {order \in [1..n -> 1..n] :
        /\ \A i, j \in 1..n : i # j => order[i] # order[j]
        /\ Respects(d, order)}

\* ---------------------------------------------------------------------------
\* QuantumCircuit.dag
\* ---------------------------------------------------------------------------
builtins ==
    { <<"U", 1, 0, 3>>, <<"CX", 2, 0, 0>>, <<"measure", 1, 1, 0>>,
      <<"reset", 1, 0, 0>>, <<"barrier", -1, 0, 0>> }

\* lines 196-200
RECURSIVE dag_registers(_, _, _)
dag_registers(d, regs, k) ==
    IF k > Len(regs) THEN d
    ELSE dag_registers(
           IF regs[k].kind = "QuantumRegister"
           THEN add_qreg(d, regs[k].name, regs[k].size)
           ELSE add_creg(d, regs[k].name, regs[k].size),
           regs, k + 1)

\* lines 202-205
RECURSIVE dag_definitions(_, _)
dag_definitions(d, defs) ==
    IF defs = {} THEN d
    ELSE LET g == CHOOSE x \in defs : TRUE IN
         dag_definitions(add_basis_element(d, g.name, g.n_bits, 0, g.n_args),
                         defs \ {g})

NameIndex(bit) == <<bit[1].name, bit[2]>>

\* dag_instruction appending the node without declaring the builtin
dag_instruction_mut(d, instruction) ==
    LET arg == instruction.qargs \o instruction.cargs
        qargs == IF instruction.name = "measure" THEN <<NameIndex(arg[1])>>
                 ELSE [k \in DOMAIN arg |-> NameIndex(arg[k])]
        cargs == IF instruction.name = "measure" THEN <<NameIndex(arg[2])>>
                 ELSE <<>>
        control == IF instruction.control = NoControl THEN NoControl
                   ELSE <<instruction.control[1].name, instruction.control[2]>>
    IN  apply_operation_back(d, instruction.name, qargs, cargs,
                             instruction.param, control)

\* lines 215-232 for one instruction
dag_instruction(d, instruction) ==
    LET d1 == IF \E b \in builtins : b[1] = instruction.name
              THEN LET b == CHOOSE x \in builtins : x[1] = instruction.name IN
                   add_basis_element(d, b[1], b[2], b[3], b[4])
              ELSE d
        arg == instruction.qargs \o instruction.cargs
        qargs == IF instruction.name = "measure" THEN <<NameIndex(arg[1])>>
                 ELSE [k \in DOMAIN arg |-> NameIndex(arg[k])]
        cargs == IF instruction.name = "measure" THEN <<NameIndex(arg[2])>>
                 ELSE <<>>
        control == IF instruction.control = NoControl THEN NoControl
                   ELSE <<instruction.control[1].name, instruction.control[2]>>
    IN  apply_operation_back(d1, instruction.name, qargs, cargs,
                             instruction.param, control)

\* lines 214-232; an error of the DAG ends the loop
RECURSIVE dag_instructions(_, _, _)
dag_instructions(d, data, k) ==
    IF k > Len(data) THEN [dag |-> d, status |-> "ok"]
    ELSE LET o == dag_instruction(d, data[k]) IN
         IF o.status # "ok" THEN o ELSE dag_instructions(o.dag, data, k + 1)

to_dag(circuit) ==
    dag_instructions(
        dag_definitions(dag_registers(DAGCircuit, circuit.regs, 1), definitions),
        circuit.data, 1)

\* lines 25-32: one new register object per register of the DAG
fresh_qregs(d) ==
    [k \in DOMAIN d.qregs |->
        QuantumRegister(FreshRegId(k), d.qregs[k].name, d.qregs[k].size)]

fresh_cregs(d) ==
    [k \in DOMAIN d.cregs |->
        ClassicalRegister(FreshRegId(Len(d.qregs) + k), d.cregs[k].name, d.cregs[k].size)]

\* lines 54-63: a new instruction of the same class over inst's own operands
duplicate_instruction(inst) ==
    IF inst.name = "measure" THEN Measure(inst.qargs[1], inst.cargs[1])
    ELSE IF inst.name = "reset" THEN Reset(inst.qargs[1])
    ELSE CnotGate(inst.qargs[1], inst.qargs[2])

\* lines 49-52
node_control(n) == IF n.control = NoControl THEN NoControl
                   ELSE <<n.control[1], n.control[2]>>

\* lines 37-67, the nodes visited in the given order
RECURSIVE dag_nodes(_, _, _, _)
dag_nodes(circuit, d, order, k) ==
    IF k > Len(order) THEN circuit
    ELSE LET n == d.nodes[order[k]]
             inst == [duplicate_instruction(n) EXCEPT !.control = node_control(n)]
         IN  dag_nodes(_attach(circuit, inst).circ, d, order, k + 1)

\* lines 25-69: the registers are made, then line 35 calls the constructor with
\* the keyword name; the loop over the nodes runs on the circuit it returned
dag_to_circuit(d, order) ==
    LET name == IF d.name = "" THEN "None" ELSE d.name
        made == QuantumCircuitCall(fresh_qregs(d) \o fresh_cregs(d),
                                   {<<"name", name>>})
    IN  IF made.status # "ok" THEN made
        ELSE Outcome(dag_nodes(made.circ, d, order, 1), "ok", {})

\* ---------------------------------------------------------------------------
\* The calls the caller makes (inputs of the actions)
\* ---------------------------------------------------------------------------
AddInputs ==
    { <<q, c>>, <<q>>, <<c, NotARegister>>, <<q, q_twin>>, <<q_small, c_small>>,
      <<c_as_q>> }

MeasureInputs ==
    { <<Bit(q, 0), Bit(c, 0)>>, <<Bit(q, 1), Bit(c, 1)>>, <<Bit(q_twin, 0), Bit(c, 1)>>,
      <<Bit(q, 2), Bit(c, 0)>>, <<Bit(q, -1), Bit(c, 0)>>, <<Bit(c, 0), Bit(c, 0)>>,
      <<Bit(r, 0), Bit(c, 0)>>, <<Bit(q_small, 0), Bit(c, 0)>>,
      <<Bit(q, 0), Bit(c, 2)>>, <<Bit(q, 0), Bit(q, 0)>>, <<Bit(q, 0), Bit(c_small, 0)>>,
      <<Whole(q), Whole(c)>>, <<Whole(q), Whole(c_small)>>, <<Whole(q_small), Whole(c)>>,
      <<Whole(q_small), Whole(c_small)>>, <<Whole(q), Bit(c, 0)>> }

ResetInputs == { Bit(q, 0), Bit(q, 2), Bit(c, 0), Whole(q), Whole(r) }

CxInputs ==
    { <<Bit(q, 0), Bit(q, 1)>>, <<Bit(q, 0), Bit(q, 0)>>,
      <<Whole(q), Whole(r)>>, <<Whole(q), Whole(q_small)>> }

HasRegisterInputs == { q, q_twin, q_small, c, c_as_q, r }

\* QuantumCircuit.definitions, the class variable: as the class body leaves it,
\* and with the definition of cx an extension has stored in it
NoDefinitions == {}

DefinitionInputs ==
    { NoDefinitions, {[name |-> "cx", n_bits |-> 2, n_args |-> 0]} }

\* ---------------------------------------------------------------------------
\* State
\* ---------------------------------------------------------------------------
NoCircuit == Circuit(<<>>, <<>>)

NoDag == [built |-> FALSE, name |-> "", qregs |-> <<>>, cregs |-> <<>>,
          basis |-> {}, nodes |-> <<>>, edges |-> {}, log |-> <<>>]

\* the last call: its name and arguments, how it ended, the circuits before it,
\* the positions of the instructions it returned, the truth value it returned,
\* and, while the loop of extend runs, the position of its iterator in the
\* list it walks (0: no loop is running)
Call(op, x, y, regs, o) ==
    [op |-> op, x |-> x, y |-> y, regs |-> regs, status |-> o.status,
     ret |-> IF o.status = "ok" THEN o.ret ELSE {},
     pre |-> circ, pre_rhs |-> rhs, value |-> FALSE, iter |-> 0]

NoCall ==
    [op |-> "new", x |-> NoArg, y |-> NoArg, regs |-> <<>>, status |-> "ok",
     ret |-> {}, pre |-> NoCircuit, pre_rhs |-> NoCircuit, value |-> FALSE,
     iter |-> 0]

\* circuit = QuantumCircuit()
Init ==
    /\ circ = QuantumCircuit(<<>>).circ
    /\ rhs = NoCircuit
    /\ dag = NoDag
    /\ out = NoCircuit
    /\ last = NoCall
    /\ definitions = NoDefinitions

\* circuit.add(*regs)
Add(regs) ==
    LET o == add(circ, regs) IN
    /\ last.iter = 0
    /\ circ' = o.circ
    /\ last' = Call("add", NoArg, NoArg, regs, o)
    /\ UNCHANGED <<definitions, rhs, dag, out>>

\* circuit.measure(qubit, cbit)
MeasureCall(qubit, cbit) ==
    LET o == measure(circ, qubit, cbit) IN
    /\ last.iter = 0
    /\ Len(o.circ.data) <= MaxLen
    /\ circ' = o.circ
    /\ last' = Call("measure", qubit, cbit, <<>>, o)
    /\ UNCHANGED <<definitions, rhs, dag, out>>

\* circuit.reset(quantum_register)
ResetCall(qubit) ==
    LET o == reset(circ, qubit) IN
    /\ last.iter = 0
    /\ Len(o.circ.data) <= MaxLen
    /\ circ' = o.circ
    /\ last' = Call("reset", qubit, NoArg, <<>>, o)
    /\ UNCHANGED <<definitions, rhs, dag, out>>

\* circuit.cx(ctl, tgt)
CxCall(ctl, tgt) ==
    LET o == cx(circ, ctl, tgt) IN
    /\ last.iter = 0
    /\ Len(o.circ.data) <= MaxLen
    /\ circ' = o.circ
    /\ last' = Call("cx", ctl, tgt, <<>>, o)
    /\ UNCHANGED <<definitions, rhs, dag, out>>

\* circuit.has_register(register)
HasRegisterCall(register) ==
    /\ last.iter = 0
    /\ last' = [Call("has_register", Whole(register), NoArg, <<>>,
                     Outcome(circ, "ok", {}))
                  EXCEPT !.value = has_register(circ, register)]
    /\ UNCHANGED <<definitions, circ, rhs, dag, out>>

\* circuit.extend(circuit), or circuit += circuit: rhs is the receiver itself, so
\* the loop of line 114 walks the very list reapply appends to. The call is
\* taken one turn of the loop at a time. Lines 110-113, then the iterator is
\* made.
ExtendSelfCall ==
    /\ last.iter = 0
    /\ last' = IF compatible(circ, circ)
               THEN [Call("extend", NoArg, NoArg, <<>>, Outcome(circ, "running", {}))
                       EXCEPT !.iter = 1]
               ELSE Call("extend", NoArg, NoArg, <<>>,
                         Outcome(circ, "circuits are not compatible", {}))
    /\ UNCHANGED <<definitions, circ, rhs, dag, out>>

\* lines 114-115, one turn: the iterator finds an element at its position of
\* the list as it is now, and the element is reapplied onto the receiver
ExtendSelfStep ==
    /\ last.iter >= 1
    /\ last.iter <= Len(circ.data)
    /\ LET o == reapply(circ.data[last.iter], circ) IN
         /\ Len(o.circ.data) <= MaxLen
         /\ circ' = o.circ
         /\ last' = IF o.status = "ok"
                    THEN [last EXCEPT !.iter = @ + 1]
                    ELSE [last EXCEPT !.iter = 0, !.status = o.status]
    /\ UNCHANGED <<definitions, rhs, dag, out>>

\* lines 114-116: the iterator is past the end of the list, extend returns self
ExtendSelfReturn ==
    /\ last.iter >= 1
    /\ last.iter > Len(circ.data)
    /\ last' = [last EXCEPT !.iter = 0, !.status = "ok"]
    /\ UNCHANGED <<definitions, circ, rhs, dag, out>>

Next ==
    \/ \E regs \in AddInputs : Add(regs)
    \/ \E m \in MeasureInputs : MeasureCall(m[1], m[2])
    \/ \E x \in ResetInputs : ResetCall(x)
    \/ \E g \in CxInputs : CxCall(g[1], g[2])
    \/ \E reg \in HasRegisterInputs : HasRegisterCall(reg)
    \/ ExtendSelfCall
    \/ ExtendSelfStep
    \/ ExtendSelfReturn

Spec == Init /\ [][Next]_vars

\* ---------------------------------------------------------------------------
\* Circuits as inputs: what a bounded number of authoring calls builds
\* ---------------------------------------------------------------------------
\* one authoring call, then .c_if(cond[1], cond[2]) on what it returned
AuthoringCall(op, x, y, cond) == [op |-> op, x |-> x, y |-> y, cond |-> cond]

ApplyCall(circuit, call) ==
    LET o == IF call.op = "measure" THEN measure(circuit, call.x, call.y)
             ELSE IF call.op = "reset" THEN reset(circuit, call.x)
             ELSE cx(circuit, call.x, call.y)
    IN  IF o.status # "ok" \/ call.cond = NoControl THEN o
        ELSE c_if(o.circ, o.ret, call.cond[1], call.cond[2])

\* the circuits at most n successful calls out of calls build from circuit
RECURSIVE Programs(_, _, _)
Programs(circuit, calls, n) ==
    IF n = 0 THEN {circuit}
    ELSE LET built == {o \in {ApplyCall(circuit, call) : call \in calls} :
                          o.status = "ok"}
         IN  {circuit} \cup UNION { Programs(o.circ, calls, n - 1) : o \in built }

Authored(regs, calls, n) ==
    {p \in Programs(QuantumCircuit(regs).circ, calls, n) : Len(p.data) <= n}

RTRegs == { <<q, c>>, <<c, q, r>>, <<c_small, q>> }

RTCalls ==
    { AuthoringCall("cx", Bit(q, 0), Bit(q, 1), NoControl),
      AuthoringCall("cx", Bit(q, 0), Bit(q, 1), <<Whole(c), 0>>),
      AuthoringCall("cx", Bit(r, 0), Bit(q, 0), NoControl),
      AuthoringCall("measure", Bit(q, 0), Bit(c, 0), NoControl),
      AuthoringCall("measure", Bit(q, 1), Bit(c, 1), NoControl),
      AuthoringCall("measure", Bit(q, 1), Bit(c, 0), NoControl),
      AuthoringCall("reset", Bit(q, 0), NoArg, NoControl),
      AuthoringCall("reset", Bit(q, 1), NoArg, <<Whole(c), 1>>) }

RTInputs == UNION { Authored(regs, RTCalls, RTLen) : regs \in RTRegs }

SelfRegs == { <<q, c>>, <<c, q>>, <<q>> }

RhsRegs == { <<q_twin, c>>, <<q>>, <<>>, <<q_small>>, <<c_as_q>>, <<q, r>> }

\* the cx is written over q_twin, an object of its own equal to q by name, size
\* and kind
PairCalls ==
    { AuthoringCall("cx", Bit(q_twin, 0), Bit(q_twin, 1), NoControl),
      AuthoringCall("measure", Bit(q, 0), Bit(c, 0), NoControl),
      AuthoringCall("measure", Bit(q, 1), Bit(c, 1), <<Whole(c), 1>>),
      AuthoringCall("reset", Bit(q, 1), NoArg, NoControl) }

SelfInputs == UNION { Authored(regs, PairCalls, PairLen) : regs \in SelfRegs }

RhsInputs == UNION { Authored(regs, PairCalls, PairLen) : regs \in RhsRegs }

\* ---------------------------------------------------------------------------
\* Round trip: dag_to_circuit(circuit.dag())
\* ---------------------------------------------------------------------------
InitRT ==
    /\ circ \in RTInputs
    /\ rhs = NoCircuit
    /\ dag = NoDag
    /\ out = NoCircuit
    /\ last = NoCall
    /\ definitions \in DefinitionInputs

\* dag = circuit.dag()
DagCall ==
    /\ last.op = "new"
    /\ LET o == to_dag(circ) IN
         /\ dag' = IF o.status = "ok" THEN o.dag ELSE NoDag
         /\ last' = Call("dag", NoArg, NoArg, <<>>, [status |-> o.status, ret |-> {}])
    /\ UNCHANGED <<definitions, circ, rhs, out>>

\* out = dag_to_circuit(dag), the traversal picking any topological order; out
\* is not assigned when the call raises
DagToCircuitCall ==
    /\ last.op = "dag"
    /\ dag.built
    /\ \E order \in TopologicalOrders(dag) :
         LET o == dag_to_circuit(dag, order) IN
         /\ out' = IF o.status = "ok" THEN o.circ ELSE out
         /\ last' = Call("dag_to_circuit", NoArg, NoArg, <<>>,
                         [status |-> o.status, ret |-> {}])
    /\ UNCHANGED <<definitions, circ, rhs, dag>>

NextRT == DagCall \/ DagToCircuitCall

SpecRT == InitRT /\ [][NextRT]_vars

\* ---------------------------------------------------------------------------
\* Two circuits: combine and extend
\* ---------------------------------------------------------------------------
InitPair ==
    /\ circ \in SelfInputs
    /\ rhs \in RhsInputs
    /\ dag = NoDag
    /\ out = NoCircuit
    /\ last = NoCall
    /\ definitions = NoDefinitions

\* out = circ.combine(rhs), or circ + rhs
CombineCall ==
    LET o == combine(circ, rhs) IN
    /\ last.op # "combine"
    /\ out' = IF o.status = "ok" THEN o.circ ELSE NoCircuit
    /\ last' = Call("combine", NoArg, NoArg, <<>>, [status |-> o.status, ret |-> {}])
    /\ UNCHANGED <<definitions, circ, rhs, dag>>

\* circ.extend(rhs), or circ += rhs
ExtendCall ==
    LET o == extend(circ, rhs) IN
    /\ Len(o.circ.data) <= 2 * PairLen
    /\ circ' = o.circ
    /\ last' = Call("extend", NoArg, NoArg, <<>>, [status |-> o.status, ret |-> {}])
    /\ UNCHANGED <<definitions, rhs, dag, out>>

NextPair == CombineCall \/ ExtendCall

SpecPair == InitPair /\ [][NextPair]_vars

\* ---------------------------------------------------------------------------
\* Vocabulary of the properties
\* ---------------------------------------------------------------------------
\* an instruction as the properties compare it: its name and its operands by
\* register name and index
Same(inst) ==
    <<inst.name,
      [k \in DOMAIN inst.qargs |-> <<inst.qargs[k][1].name, inst.qargs[k][2]>>],
      [k \in DOMAIN inst.cargs |-> <<inst.cargs[k][1].name, inst.cargs[k][2]>>]>>

\* ... and its classical condition by register name and value
SameControlled(inst) ==
    <<Same(inst),
      IF inst.control = NoControl THEN <<>>
      ELSE <<inst.control[1].name, inst.control[2]>>>>

OperandBits(inst) ==
    {<<inst.qargs[k][1].name, inst.qargs[k][2]>> : k \in DOMAIN inst.qargs}
    \cup {<<inst.cargs[k][1].name, inst.cargs[k][2]>> : k \in DOMAIN inst.cargs}

SharesBit(a, b) == OperandBits(a) \cap OperandBits(b) # {}

\* every consecutive pair of instructions shares at least one bit
IsChain(circuit) ==
    \A k \in 1..(Len(circuit.data) - 1) :
        SharesBit(circuit.data[k], circuit.data[k + 1])

\* the instructions of the circuit that touch bit b, in the circuit's order
OnBit(circuit, b) ==
    LET Touches(inst) == b \in OperandBits(inst)
        on == SelectSeq(circuit.data, Touches)
    IN  [k \in DOMAIN on |-> Same(on[k])]

BitsOf(circuit) ==
    UNION {OperandBits(circuit.data[k]) : k \in DOMAIN circuit.data}

RegValues(circuit) == {RegValue(circuit.regs[k]) : k \in DOMAIN circuit.regs}

\* the circuit holds a register of r's name, size and kind
Present(circuit, reg) == RegValue(reg) \in RegValues(circuit)

InRange(bit) == 0 <= bit.idx /\ bit.idx < bit.reg.size

\* dag_to_circuit(circuit.dag()) was called
RoundTripped == last.op = "dag_to_circuit"

\* ... and returned a circuit
Returned == last.status = "ok"

\* ---------------------------------------------------------------------------
\* Properties of the round trip (SpecRT)
\* ---------------------------------------------------------------------------
\* C1: when every consecutive pair of instructions of the circuit shares a bit,
\* dag_to_circuit(circuit.dag()) holds, position by position, the circuit's
\* instructions (same name, same operands by register name and index),
\* whichever topological order the traversal picked.
C1_ChainRoundTrip ==
    (RoundTripped /\ IsChain(circ)) =>
        /\ Returned
        /\ Len(out.data) = Len(circ.data)
        /\ \A k \in DOMAIN circ.data : Same(out.data[k]) = Same(circ.data[k])

\* C2: for every bit, the instructions touching it come out of the round trip
\* in the circuit's program order, whichever topological order was picked.
C2_PerBitOrder ==
    RoundTripped =>
        /\ Returned
        /\ Len(out.data) = Len(circ.data)
        /\ \A b \in BitsOf(circ) \cup BitsOf(out) : OnBit(out, b) = OnBit(circ, b)

\* C3: dag_to_circuit(circuit.dag()) declares exactly the circuit's registers:
\* one register per register of the circuit, of the same name, size and kind,
\* and no other.
C3_SameRegisters ==
    RoundTripped =>
        /\ Returned
        /\ RegValues(out) = RegValues(circ)
        /\ Len(out.regs) = Len(circ.regs)
        /\ \A i, j \in DOMAIN out.regs : out.regs[i].name = out.regs[j].name => i = j

\* ---------------------------------------------------------------------------
\* Properties of combine and extend (SpecPair)
\* ---------------------------------------------------------------------------
\* the other circuit declares a register the receiver does not hold
Incompatible(self, other) ==
    \E k \in DOMAIN other.regs : ~Present(self, other.regs[k])

\* C4: for circuits with identical register sets, combine returns a new circuit
\* of len(C1)+len(C2) instructions, C1's replayed in order and then C2's in
\* order, and leaves C1 and C2 as they were.
C4_Combine ==
    (last.op = "combine" /\ RegValues(last.pre) = RegValues(last.pre_rhs)) =>
        LET n1 == Len(last.pre.data)
            n2 == Len(last.pre_rhs.data)
        IN  /\ last.status = "ok"
            /\ Len(out.data) = n1 + n2
            /\ \A k \in 1..n1 :
                 SameControlled(out.data[k]) = SameControlled(last.pre.data[k])
            /\ \A k \in 1..n2 :
                 SameControlled(out.data[n1 + k]) = SameControlled(last.pre_rhs.data[k])
            /\ circ = last.pre
            /\ rhs = last.pre_rhs

\* two circuits of two instructions each, differing in their instructions,
\* the second over its own register objects, were combined
C4_Witness ==
    /\ last.op = "combine"
    /\ RegValues(circ) = RegValues(rhs)
    /\ Len(circ.data) = 2
    /\ Len(rhs.data) = 2
    /\ Same(circ.data[1]) # Same(circ.data[2])
    /\ Same(circ.data[1]) # Same(rhs.data[1])
    /\ rhs.regs[1].id # circ.regs[1].id
    /\ Len(out.data) = 4

\* C5: when the other circuit declares a register the receiver does not hold
\* (by name, size and kind), combine and extend fail with the
\* incompatible-registers error and leave both circuits as they were.
C5_IncompatibleFails ==
    (last.op \in {"combine", "extend"} /\ Incompatible(last.pre, last.pre_rhs)) =>
        /\ last.status = "circuits are not compatible"
        /\ circ = last.pre
        /\ rhs = last.pre_rhs
        /\ last.op = "combine" => out = NoCircuit

\* extend was refused for a register of unknown name declared after a register
\* the receiver holds, both circuits holding instructions
C5_Witness ==
    /\ last.op = "extend"
    /\ Incompatible(last.pre, last.pre_rhs)
    /\ Len(rhs.regs) = 2
    /\ Present(circ, rhs.regs[1])
    /\ Len(rhs.data) >= 1
    /\ Len(circ.data) >= 1
    /\ last.status # "ok"

\* ---------------------------------------------------------------------------
\* Properties of authoring (Spec)
\* ---------------------------------------------------------------------------
\* C6: a failed add(r1, ..., rn) leaves the circuit's register map as it was
\* before the call.
C6_FailedAddAttachesNothing ==
    (last.op = "add" /\ last.status # "ok") => circ.regs = last.pre.regs

\* C7: no instruction of the circuit has a repeated qubit operand, and
\* cx(b, b) fails with the duplicate-qubit-argument error, attaching nothing.
C7_NoRepeatedQubitOperand ==
    /\ \A k \in DOMAIN circ.data : _check_dups(circ.data[k].qargs) = "ok"
    /\ (last.op = "cx" /\ last.x.tag = "bit" /\ last.x = last.y) =>
          /\ last.status = "duplicate qubit arguments"
          /\ circ.data = last.pre.data

\* measure was called with a whole quantum and a whole classical register
WholeRegisterMeasure ==
    /\ last.op = "measure"
    /\ last.x.tag = "reg" /\ last.x.reg.kind = "QuantumRegister"
    /\ last.y.tag = "reg" /\ last.y.reg.kind = "ClassicalRegister"

\* C8: measure(qreg, creg) over registers of equal size n held by the circuit
\* appends exactly the n measurements (qreg, i) -> (creg, i), i = 0..n-1, in
\* index order, and returns them.
C8_MeasureRegisters ==
    (/\ WholeRegisterMeasure
     /\ last.x.reg.size = last.y.reg.size
     /\ Present(last.pre, last.x.reg)
     /\ Present(last.pre, last.y.reg)) =>
        LET n == last.x.reg.size
            n0 == Len(last.pre.data)
        IN  /\ last.status = "ok"
            /\ Len(circ.data) = n0 + n
            /\ SubSeq(circ.data, 1, n0) = last.pre.data
            /\ \A i \in 0..(n - 1) :
                 circ.data[n0 + 1 + i] =
                     Measure(<<last.x.reg, i>>, <<last.y.reg, i>>)
            /\ last.ret = (n0 + 1)..(n0 + n)
            /\ circ.regs = last.pre.regs

\* two qubits were measured into two classical bits after another instruction
C8_Witness ==
    /\ WholeRegisterMeasure
    /\ last.status = "ok"
    /\ last.x.reg.size = 2
    /\ Len(last.pre.data) = 1
    /\ Len(circ.data) = 3

\* C9: measure(qreg, creg) over registers of unequal sizes fails with the
\* size-mismatch error and attaches no measurement.
C9_UnequalSizesMismatchError ==
    (WholeRegisterMeasure /\ last.x.reg.size # last.y.reg.size) =>
        /\ last.status = "register size error"
        /\ circ.data = last.pre.data

\* C10: measure((q, i), (c, j)) attaches exactly one measurement when q is a
\* quantum register of the circuit, c a classical register of the circuit and
\* both indices are in range; otherwise it fails and attaches nothing.
C10_ScalarMeasure ==
    (last.op = "measure" /\ last.x.tag = "bit" /\ last.y.tag = "bit") =>
        LET valid == /\ last.x.reg.kind = "QuantumRegister"
                     /\ Present(last.pre, last.x.reg)
                     /\ last.y.reg.kind = "ClassicalRegister"
                     /\ Present(last.pre, last.y.reg)
                     /\ InRange(last.x)
                     /\ InRange(last.y)
        IN  /\ valid =>
                /\ last.status = "ok"
                /\ circ.data = Append(last.pre.data,
                                      Measure(<<last.x.reg, last.x.idx>>,
                                              <<last.y.reg, last.y.idx>>))
            /\ ~valid =>
                /\ last.status # "ok"
                /\ circ.data = last.pre.data
            /\ circ.regs = last.pre.regs

\* a measurement of a valid qubit into a classical bit out of range was
\* refused on a circuit that holds instructions
C10_Witness ==
    /\ last.op = "measure"
    /\ last.x.tag = "bit" /\ last.y.tag = "bit"
    /\ Present(circ, last.x.reg) /\ last.x.reg.kind = "QuantumRegister" /\ InRange(last.x)
    /\ Present(circ, last.y.reg) /\ last.y.reg.kind = "ClassicalRegister" /\ ~InRange(last.y)
    /\ last.status # "ok"
    /\ Len(circ.data) >= 1

\* every register an instruction refers to: operands and condition
RegistersOf(inst) ==
    {inst.qargs[k][1] : k \in DOMAIN inst.qargs}
    \cup {inst.cargs[k][1] : k \in DOMAIN inst.cargs}
    \cup (IF inst.control = NoControl THEN {} ELSE {inst.control[1]})

\* every bit reference of the circuit's instructions names a register the
\* circuit holds (same name, size and kind) and an index within its size
BitReferencesResolve(circuit) ==
    \A k \in DOMAIN circuit.data :
        LET inst == circuit.data[k]
            bits == inst.qargs \o inst.cargs
        IN  \A i \in DOMAIN bits :
                /\ Present(circuit, bits[i][1])
                /\ 0 <= bits[i][2]
                /\ bits[i][2] < bits[i][1].size

\* C11: in every state the authoring calls reach, and in every circuit
\* dag_to_circuit builds, every bit reference of the circuit's data resolves to
\* a register of that circuit and is within its size.
C11_BitReferencesResolve ==
    /\ BitReferencesResolve(circ)
    /\ BitReferencesResolve(out)

\* C12: the instruction dag_to_circuit attaches for a node with the condition
\* (register, value) carries that value on the classical register of that name
\* that the conversion created for the output circuit, not the register of the
\* DAG; the instruction of a node without a condition carries none.
C12_ConditionOnFreshRegister ==
    RoundTripped =>
        \E order \in TopologicalOrders(dag) :
            /\ Returned
            /\ Len(out.data) = Len(order)
            /\ \A k \in DOMAIN out.data :
                 LET n == dag.nodes[order[k]]
                     inst == out.data[k]
                 IN  /\ Same(inst) = Same(n)
                     /\ n.control = NoControl => inst.control = NoControl
                     /\ n.control # NoControl =>
                          /\ inst.control # NoControl
                          /\ inst.control[2] = n.control[2]
                          /\ inst.control[1] = SeqReg(out.regs, n.control[1].name)

\* the Register objects a circuit or a DAG holds
RegisterObjects(regs) == {regs[k].id : k \in DOMAIN regs}

\* C13: the circuit dag_to_circuit builds shares no Register object with the
\* DAG: its registers are new objects, and every operand and condition of its
\* instructions refers to registers of the circuit itself, none of the DAG.
C13_NoSharedObjects ==
    RoundTripped =>
        LET mine == RegisterObjects(out.regs)
            theirs == RegisterObjects(dag.qregs \o dag.cregs)
        IN  /\ Returned
            /\ mine \cap theirs = {}
            /\ \A k \in DOMAIN out.data :
                 \A reg \in RegistersOf(out.data[k]) :
                     /\ reg.id \in mine
                     /\ reg.id \notin theirs

\* C14: every instruction combine replays onto the new circuit T arrives as one
\* instruction of the same name, parameters and condition whose qubit operands
\* are T's own registers of the same name at the same indices, also when the
\* instruction was written over another object equal by name, size and kind.
C14_ReapplyRebinds ==
    (last.op = "combine" /\ last.status = "ok") =>
        LET gates == circ.data \o rhs.data IN
        /\ Len(out.data) = Len(gates)
        /\ \A k \in DOMAIN out.data :
             LET inst == out.data[k]
                 gate == gates[k]
             IN  /\ inst.name = gate.name
                 /\ inst.param = gate.param
                 /\ SameControlled(inst) = SameControlled(gate)
                 /\ \A i \in DOMAIN inst.qargs :
                      inst.qargs[i] = <<RegOf(out, gate.qargs[i][1].name), gate.qargs[i][2]>>

\* C15: has_register(r) is true exactly when the circuit holds, under r's name,
\* a register of r's size and r's kind, whichever object r is: it is false when
\* the name is absent, when the sizes differ and when the kinds differ.
C15_HasRegisterByValue ==
    last.op = "has_register" =>
        LET reg == last.x.reg
            named == {k \in DOMAIN circ.regs : circ.regs[k].name = reg.name}
        IN  /\ last.value <=>
                 \E k \in named : /\ circ.regs[k].size = reg.size
                                  /\ circ.regs[k].kind = reg.kind
            /\ named = {} => ~last.value
            /\ (\A k \in named : circ.regs[k].size # reg.size) => ~last.value
            /\ (\A k \in named : circ.regs[k].kind # reg.kind) => ~last.value

\* has_register said yes to q_twin on a circuit holding q, another object, and
\* holding instructions
C15_Witness ==
    /\ last.op = "has_register"
    /\ last.value
    /\ last.x.reg = q_twin
    /\ q_twin.id \notin RegisterObjects(circ.regs)
    /\ q.id \in RegisterObjects(circ.regs)
    /\ Len(circ.data) >= 1

\* C16: circuit.extend(circuit), the receiver being its own rhs, replays each
\* instruction the circuit held when the call started exactly once: the
\* iterator never goes past those instructions, the list never grows beyond
\* twice its first length, what is appended are the replays in order, and the
\* call returns with exactly twice the first length.
C16_ExtendSelfReplaysOnce ==
    (last.op = "extend" /\ last.status \in {"running", "ok"}) =>
        LET n0 == Len(last.pre.data) IN
        /\ last.iter <= n0 + 1
        /\ Len(circ.data) <= 2 * n0
        /\ Len(circ.data) >= n0
        /\ SubSeq(circ.data, 1, n0) = last.pre.data
        /\ \A k \in 1..n0 :
             n0 + k <= Len(circ.data) =>
                SameControlled(circ.data[n0 + k]) = SameControlled(last.pre.data[k])
        /\ last.iter = 0 => Len(circ.data) = 2 * n0

\* positions of the DAG's history
Declared(d, name) == {p \in DOMAIN d.log : d.log[p] = <<"basis", name>>}

Appended(d) == {p \in DOMAIN d.log : d.log[p][1] = "node"}

DefinedNames == {g.name : g \in definitions}

BuiltinNames == {b[1] : b \in builtins}

\* C17: in the DAG dag() returns, every defined gate name was declared in the
\* basis before any operation node was appended; every builtin was declared,
\* with its arities, before the first node of its name was appended; so every
\* node of a builtin or defined name was appended with its name already in the
\* basis; and a builtin that no instruction names and that has no definition is
\* not in the basis.
C17_BasisBeforeNodes ==
    (last.op \in {"dag", "dag_to_circuit"} /\ dag.built) =>
        /\ \A g \in definitions :
             /\ <<g.name, g.n_bits, 0, g.n_args>> \in dag.basis
             /\ \E p \in Declared(dag, g.name) : \A n \in Appended(dag) : p < n
        /\ \A n \in Appended(dag) :
             dag.log[n][2] \in BuiltinNames \cup DefinedNames =>
                \E p \in Declared(dag, dag.log[n][2]) : p < n
        /\ \A b \in builtins :
             IF \E n \in Appended(dag) : dag.log[n][2] = b[1]
             THEN b \in dag.basis
             ELSE b[1] \notin DefinedNames =>
                    \A e \in dag.basis : e[1] # b[1]
        /\ Len(SelectSeq(dag.log, LAMBDA e : e[1] = "node")) = Len(dag.nodes)

\* dag() ran with cx defined on a circuit that measures after a cx and never
\* resets: measure was declared after the first node, reset never
C17_Witness ==
    /\ last.op = "dag"
    /\ dag.built
    /\ "cx" \in DefinedNames
    /\ Len(dag.nodes) = 3
    /\ dag.nodes[1].name = "cx"
    /\ dag.nodes[2].name = "measure"
    /\ dag.nodes[3].name = "measure"
    /\ \E p \in Declared(dag, "measure") : \E n \in Appended(dag) : n < p
    /\ Declared(dag, "reset") = {}

QuantumFirst(circuit) ==
    \A i, j \in DOMAIN circuit.regs :
        (circuit.regs[i].kind = "QuantumRegister"
         /\ circuit.regs[j].kind = "ClassicalRegister") => i < j

OfKind(regs, kind) ==
    LET Is(reg) == reg.kind = kind
        of == SelectSeq(regs, Is)
    IN  [k \in DOMAIN of |-> RegValue(of[k])]

\* C18: the register map of dag_to_circuit(circuit.dag()) lists every quantum
\* register, in the circuit's order of the quantum registers, and then every
\* classical register, in the circuit's order of the classical ones; so its
\* declaration order is the circuit's only if the circuit declared every
\* quantum register before every classical one.
C18_QuantumRegistersFirst ==
    RoundTripped =>
        /\ Returned
        /\ QuantumFirst(out)
        /\ OfKind(out.regs, "QuantumRegister") = OfKind(circ.regs, "QuantumRegister")
        /\ OfKind(out.regs, "ClassicalRegister") = OfKind(circ.regs, "ClassicalRegister")
        /\ [k \in DOMAIN out.regs |-> RegValue(out.regs[k])]
             = [k \in DOMAIN circ.regs |-> RegValue(circ.regs[k])]
           => QuantumFirst(circ)

====
